---- MODULE Spec2Model ----
(***************************************************************************)
(* Model of src/utils/deduplication.py: exact duplicate removal by the     *)
(* hash of the normalized text, greedy near-duplicate clustering over a    *)
(* cosine-similarity matrix, and the combined deduplicate_dataframe        *)
(* pipeline; and of src/utils/text_normalization.py: the step functions    *)
(* of the normalizer and the normalize_text pipeline over them.            *)
(*                                                                         *)
(* A text is a record [isStr, chars]: a Python str is its sequence of      *)
(* one-character strings, anything else (None) has isStr = FALSE.  A       *)
(* DataFrame is the sequence of its rows [label, text] in row order;       *)
(* label is the pandas index label of the row, position is its 0-based     *)
(* place in the sequence.  Similarities and thresholds are integer         *)
(* percents (0.95 is 95).                                                  *)
(*                                                                         *)
(* Spec is the deduplication called on a DataFrame, NormSpec the           *)
(* normalizer called on a text, AggSpec aggregate_annotations of           *)
(* src/scripts/10_export_annotations.py called on a frame of annotations,  *)
(* IdSpec process_reddit and process_youtube of                            *)
(* src/scripts/5_preprocess_and_unify.py run on the rows of a              *)
(* raw_comments.csv; under each the variables of the others stay as they   *)
(* start.                                                                  *)
(***************************************************************************)
EXTENDS Integers, Sequences, FiniteSets, TLC

\* Largest number of rows of a DataFrame handed to remove_exact_duplicates
\* or deduplicate_dataframe.
MaxRows == 3

\* Largest number of rows of a DataFrame handed to remove_near_duplicates.
MaxNearRows == 4

\* batch_size of find_near_duplicates.
batch_size == 1000

Str(s) == [isStr |-> TRUE, chars |-> s]
None == [isStr |-> FALSE, chars |-> << >>]

\* Texts of the directly called remove_exact_duplicates: case variants,
\* whitespace runs, leading and trailing whitespace, empty, blank, None.
ExactTexts ==
    { Str(<<"a", "b", "c">>), Str(<<"A", "B", "C", " ", " ">>),
      Str(<<"a", " ", "b">>), Str(<<" ", "A", " ", " ", "B">>),
      Str(<< >>), Str(<<" ">>), None }

\* Texts of the rows handed to deduplicate_dataframe.
PipelineTexts ==
    { Str(<<"a", "b", "c">>), Str(<<"A", "B", "C", " ", " ">>),
      Str(<<"a", " ", "b">>), Str(<<"a", "b">>), None }

\* Text of row i of a DataFrame handed to remove_near_duplicates: the
\* documents "ab", "abb", "abbb", ... are pairwise different.
NearText(i) == Str([j \in 1..(i + 1) |-> IF j = 1 THEN "a" ELSE "b"])

Keeps == {"first", "last"}
Thresholds == {90, 95}
\* Thresholds outside (0, 1]: 0.0 and 1.5.
InvalidThresholds == {0, 150}
\* Off-diagonal values of the cosine similarity matrix.
SimValues == {90, 95}

\* Strictly increasing index labels 0..n with label k left out; k = n is
\* the RangeIndex 0..n-1.
LabelSeq(n, k) == [i \in 1..n |-> IF i - 1 < k THEN i - 1 ELSE i]

\* DataFrames of up to MaxRows rows with texts of pool, under every LabelSeq.
DataFrames(pool) ==
    UNION { { [i \in 1..n |-> [label |-> LabelSeq(n, k)[i], text |-> t[i]]] :
                k \in 0..n, t \in [1..n -> pool] } : n \in 0..MaxRows }

\* The same, under the RangeIndex a freshly built DataFrame has.
FreshDataFrames(pool) ==
    UNION { { [i \in 1..n |-> [label |-> i - 1, text |-> t[i]]] :
                t \in [1..n -> pool] } : n \in 0..MaxRows }

\* DataFrames of up to MaxNearRows different documents, under every LabelSeq.
\* Row bad, if any (bad = 0: none), holds None instead of a text.
NearDataFrames ==
    UNION { { [i \in 1..n |-> [label |-> LabelSeq(n, k)[i],
                               text |-> IF i = bad THEN None ELSE NearText(i)]] :
                k \in 0..n, bad \in 0..n } : n \in 0..MaxNearRows }

Positions(d) == 0..(Len(d) - 1)
Row(d, p) == d[p + 1]
IsRangeIndex(d) == \A p \in Positions(d) : Row(d, p).label = p

\* ------------------------------------------------------------ characters

\* A str as the sequence of its characters, from a literal.
Chars(s) == [i \in 1..Len(s) |-> SubSeq(s, i, i)]

\* The printable ASCII characters, U+0020 to U+007E, in code point order.
GraveAccent == "U+0060"
Ascii ==
    Chars(" !\"#$%&'()*+,-./0123456789:;<=>?@ABCDEFGHIJKLMNOPQRSTUVWXYZ[\\]^_")
        \o <<GraveAccent>> \o Chars("abcdefghijklmnopqrstuvwxyz{|}~")

AsciiOrd == [c \in {Ascii[i] : i \in 1..Len(Ascii)} |->
                31 + (CHOOSE i \in 1..Len(Ascii) : Ascii[i] = c)]

\* Characters outside printable ASCII are written by name.
Tab == "\t"
Newline == "\n"
Bell == "U+0007"
VerticalTab == "U+000B"
Nbsp == "U+00A0"
EnDash == "U+2013"
EmDash == "U+2014"
LeftSingleQuote == "U+2018"
RightSingleQuote == "U+2019"
LeftDoubleQuote == "U+201C"
RightDoubleQuote == "U+201D"
Ellipsis == "U+2026"
CircledM == "U+24C2"
CircledSmallM == "U+24DC"
Cjk == "U+4E2D"
Hangul == "U+D55C"
Grinning == "U+1F600"

\* ord(c)
Ord(c) ==
    CASE c = Tab -> 9
      [] c = Newline -> 10
      [] c = Bell -> 7
      [] c = VerticalTab -> 11
      [] c = Nbsp -> 160
      [] c = EnDash -> 8211
      [] c = EmDash -> 8212
      [] c = LeftSingleQuote -> 8216
      [] c = RightSingleQuote -> 8217
      [] c = LeftDoubleQuote -> 8220
      [] c = RightDoubleQuote -> 8221
      [] c = Ellipsis -> 8230
      [] c = CircledM -> 9410
      [] c = CircledSmallM -> 9436
      [] c = Cjk -> 20013
      [] c = Hangul -> 54620
      [] c = Grinning -> 128512
      [] OTHER -> AsciiOrd[c]

\* chr(n), printable ASCII
Chr(n) == Ascii[n - 31]

IsAsciiUpper(c) == Ord(c) >= 65 /\ Ord(c) <= 90
IsAsciiLower(c) == Ord(c) >= 97 /\ Ord(c) <= 122
IsAsciiLetter(c) == IsAsciiUpper(c) \/ IsAsciiLower(c)
IsDigit(c) == Ord(c) >= 48 /\ Ord(c) <= 57

\* str.isupper() of one character
IsUpper(c) == IsAsciiUpper(c) \/ c = CircledM

\* str.upper() of one character
UpperChar(c) ==
    IF IsAsciiLower(c) THEN Chr(Ord(c) - 32)
    ELSE IF c = CircledSmallM THEN CircledM ELSE c

\* \w of re on str: alphanumeric or underscore
IsWord(c) == IsAsciiLetter(c) \/ IsDigit(c) \/ c = "_" \/ c \in {Cjk, Hangul}

\* unicodedata.category(c)[0] = 'C'
IsCategoryC(c) == c \in {Tab, Newline, Bell, VerticalTab}

\* unicodedata.normalize('NFKC', c)
Nfkc(c) ==
    CASE c = Ellipsis -> <<".", ".", ".">>
      [] c = Nbsp -> <<" ">>
      [] c = CircledM -> <<"M">>
      [] c = CircledSmallM -> <<"m">>
      [] OTHER -> <<c>>

\* ------------------------------------------------------------ str methods

\* The characters of the texts.
Alphabet ==
    {Ascii[i] : i \in 1..Len(Ascii)} \cup
    {Tab, Newline, Bell, VerticalTab, Nbsp, EnDash, EmDash, LeftSingleQuote,
     RightSingleQuote, LeftDoubleQuote, RightDoubleQuote, Ellipsis, CircledM,
     CircledSmallM, Cjk, Hangul, Grinning}

LowerTable ==
    [c \in Alphabet |->
        IF IsAsciiUpper(c) THEN Chr(Ord(c) + 32)
        ELSE IF c = CircledM THEN CircledSmallM ELSE c]

\* str.lower(), one character.
LowerChar(c) == LowerTable[c]

str_lower(s) == [i \in 1..Len(s) |-> LowerChar(s[i])]

\* str.isspace() of one character, \s of re on str
SpaceChars == {" ", Tab, Newline, VerticalTab, Nbsp}
IsSpace(c) == c \in SpaceChars

\* str.split(): the maximal runs of non-whitespace characters, in order.
RECURSIVE SplitFrom(_, _, _)
SplitFrom(s, i, word) ==
    IF i > Len(s)
    THEN IF word = << >> THEN << >> ELSE <<word>>
    ELSE IF IsSpace(s[i])
         THEN (IF word = << >> THEN << >> ELSE <<word>>) \o SplitFrom(s, i + 1, << >>)
         ELSE SplitFrom(s, i + 1, Append(word, s[i]))

str_split(s) == SplitFrom(s, 1, << >>)

\* sep.join(words)
RECURSIVE str_join(_, _)
str_join(sep, words) ==
    IF words = << >> THEN << >>
    ELSE IF Len(words) = 1 THEN words[1]
    ELSE words[1] \o sep \o str_join(sep, Tail(words))

\* hashlib.md5(...).hexdigest(): a non-empty digest, one per message (no
\* collision).
md5_hexdigest(s) == <<"md5:">> \o s

\* ------------------------------------------------------ exact deduplication

compute_text_hash_no_lower(text) ==
    IF ~text.isStr THEN << >>
    ELSE md5_hexdigest(str_join(<<" ">>, str_split(text.chars)))

\* compute_text_hash with the default algorithm 'md5'.
compute_text_hash(text) ==
    IF ~text.isStr THEN << >>
    ELSE md5_hexdigest(str_join(<<" ">>, str_split(str_lower(text.chars))))

\* df[text_col].apply(compute_text_hash): the hash of every position.
HashColumn(d) == [p \in Positions(d) |-> compute_text_hash(Row(d, p).text)]

\* Series.duplicated(keep=keep): the positions marked as duplicates.
duplicated(h, keep) ==
    { p \in DOMAIN h :
        IF keep = "first" THEN \E q \in DOMAIN h : q < p /\ h[q] = h[p]
        ELSE \E q \in DOMAIN h : q > p /\ h[q] = h[p] }

\* n_duplicates counted with keep=False: every member of a repeated group.
count_duplicates_keep_false(h, keep) ==
    Cardinality({ p \in DOMAIN h : \E q \in DOMAIN h : q # p /\ h[q] = h[p] })

\* df['_text_hash'].duplicated(keep=keep).sum()
count_duplicates(h, keep) == Cardinality(duplicated(h, keep))

\* Scan of drop_duplicates: rows are visited in row order for keep='first'
\* and in reverse for keep='last'; a row survives when its hash has not
\* been seen by the scan.
RECURSIVE DropScan(_, _, _, _)
DropScan(d, h, order, seen) ==
    IF order = << >> THEN {}
    ELSE LET p == Head(order) IN
         IF h[p] \in seen THEN DropScan(d, h, Tail(order), seen)
         ELSE {p} \cup DropScan(d, h, Tail(order), seen \cup {h[p]})

\* The rows of d at the positions of keepSet, in row order, labels kept.
RECURSIVE TakeRows(_, _, _)
TakeRows(d, keepSet, p) ==
    IF p >= Len(d) THEN << >>
    ELSE (IF p \in keepSet THEN <<Row(d, p)>> ELSE << >>) \o TakeRows(d, keepSet, p + 1)

drop_duplicates_ignoring_keep(d, h, keep) ==
    TakeRows(d, DropScan(d, h, [i \in 1..Len(d) |-> i - 1], {}), 0)

\* A scan that stops dropping after the first duplicate it meets.
drop_duplicates_once(d, h, keep) ==
    LET dups == duplicated(h, keep)
        one == IF dups = {} THEN {}
               ELSE {CHOOSE p \in dups : \A q \in dups : p <= q}
    IN TakeRows(d, Positions(d) \ one, 0)

\* df.drop_duplicates(subset=['_text_hash'], keep=keep)
drop_duplicates(d, h, keep) ==
    LET n == Len(d)
        order == IF keep = "first" THEN [i \in 1..n |-> i - 1]
                 ELSE [i \in 1..n |-> n - i]
    IN TakeRows(d, DropScan(d, h, order, {}), 0)

\* remove_exact_duplicates(df, text_col, keep): (df_dedup, n_duplicates).
\* The rate printed at line 75 divides a numpy integer: on an empty frame
\* it is nan, not an exception.
remove_exact_duplicates(d, keep) ==
    LET h == HashColumn(d)
    IN [df |-> drop_duplicates(d, h, keep), n |-> count_duplicates(h, keep)]

\* -------------------------------------------------- near-duplicate search

\* The pairs of positions above the diagonal of an n x n matrix.
UpperPairs(n) == { pr \in (0..(n - 1)) \X (0..(n - 1)) : pr[1] < pr[2] }

\* A matrix that is not symmetric: 0.95 everywhere below the diagonal.
SimMatrix_not_symmetric(n, u) ==
    [a \in 0..(n - 1) |->
        [b \in 0..(n - 1) |->
            IF a = b THEN 100 ELSE IF a < b THEN u[<<a, b>>] ELSE 95]]

\* cosine_similarity of the TF-IDF matrix with itself: symmetric, 1.0 on
\* the diagonal; u gives the values above the diagonal.
SimMatrix(n, u) ==
    [a \in 0..(n - 1) |->
        [b \in 0..(n - 1) |->
            IF a = b THEN 100 ELSE IF a < b THEN u[<<a, b>>] ELSE u[<<b, a>>]]]

\* for i in range(0, n_samples, b): the start of the batch that holds row
\* g when the batch size is b.
BatchStart(g, b) == (g \div b) * b

\* The rows of the batch [i, end_i) against the columns of the batch only.
BatchSimilarities_within_batch(m, n, i, b) ==
    LET end_i == IF i + b < n THEN i + b ELSE n
    IN [local_idx \in 0..(end_i - i - 1) |->
           [col \in i..(end_i - 1) |-> m[i + local_idx][col]]]

\* similarities = cosine_similarity(batch, tfidf_matrix): one row per row of
\* the batch [i, end_i), one column per document.
BatchSimilarities(m, n, i, b) ==
    LET end_i == IF i + b < n THEN i + b ELSE n
    IN [local_idx \in 0..(end_i - i - 1) |-> m[i + local_idx]]

where_strictly_above(row, threshold) ==
    { idx \in DOMAIN row : row[idx] > threshold }

\* np.where(similarities[local_idx] >= threshold)[0]
where_at_least(row, threshold) ==
    { idx \in DOMAIN row : row[idx] >= threshold }

filter_similar_keep_processed(similar, global_idx_, processed_) ==
    { idx \in similar : idx # global_idx_ }

\* [idx for idx in similar_indices if idx != global_idx and idx not in processed]
filter_similar(similar, global_idx_, processed_) ==
    { idx \in similar : idx # global_idx_ /\ idx \notin processed_ }

\* Lines 138-152 for the row g of the batch it lies in, the batch size
\* being b: the clusters and the processed rows after it.
scan_row(m, n, threshold, b, g, clusters, done) ==
    LET i == BatchStart(g, b)
        local_idx == g - i
        similarities == BatchSimilarities(m, n, i, b)
        similar_indices ==
            filter_similar(where_at_least(similarities[local_idx], threshold), g, done)
        cluster == {g} \cup similar_indices
    IN IF g \in done \/ similar_indices = {}
       THEN [clusters |-> clusters, processed |-> done]
       ELSE [clusters |-> Append(clusters, cluster), processed |-> done \cup cluster]

\* Lines 130-152 from the row g on.
RECURSIVE scan_from(_, _, _, _, _, _, _)
scan_from(m, n, threshold, b, g, clusters, done) ==
    IF g >= n THEN clusters
    ELSE LET r == scan_row(m, n, threshold, b, g, clusters, done)
         IN scan_from(m, n, threshold, b, g + 1, r.clusters, r.processed)

\* sorted(cluster) of a set of integers.
RECURSIVE sorted(_)
sorted(S) ==
    IF S = {} THEN << >>
    ELSE LET lo == CHOOSE x \in S : \A y \in S : x <= y
         IN <<lo>> \o sorted(S \ {lo})

Range(s) == {s[i] : i \in 1..Len(s)}

\* indices_to_remove of remove_near_duplicates: of every cluster all but
\* the first (keep='first') or all but the last (keep='last') sorted member.
to_remove(cl, keep) ==
    UNION { LET sc == sorted(cl[c]) IN
            IF keep = "first" THEN Range(SubSeq(sc, 2, Len(sc)))
            ELSE IF keep = "last" THEN Range(SubSeq(sc, 1, Len(sc) - 1))
            ELSE {} : c \in 1..Len(cl) }

\* df[~df.index.isin(indices_to_remove)]: the rows whose index LABEL is not
\* among indices_to_remove.
mask_by_label(d, remove) ==
    TakeRows(d, { p \in Positions(d) : Row(d, p).label \notin remove }, 0)

\* --------------------------------------------------------- text normalization

\* s[i:], 0-based
From(s, i) == SubSeq(s, i + 1, Len(s))

\* s.startswith(prefix, i - 1): prefix is in s at the 1-based place i
StartsWithAt(s, i, prefix) ==
    /\ i + Len(prefix) - 1 <= Len(s)
    /\ \A k \in 1..Len(prefix) : s[i + k - 1] = prefix[k]

\* Place of the last character of the longest run of characters of a class
\* that starts at place i (i - 1: there is none); inC[k] tells whether the
\* character at place k is of the class.
RunEnd(s, i, inC) ==
    CHOOSE j \in (i - 1)..Len(s) :
        /\ \A k \in i..j : inC[k]
        /\ j = Len(s) \/ ~inC[j + 1]

\* pattern.sub(repl, s): ends[i] is the place of the last character of the
\* match of the pattern that starts at place i (0: no match), repl[i] what
\* replaces it; matches are taken left to right and do not overlap.
RECURSIVE SubFrom(_, _, _, _)
SubFrom(s, ends, repl, i) ==
    IF i > Len(s) THEN << >>
    ELSE IF ends[i] >= i THEN repl[i] \o SubFrom(s, ends, repl, ends[i] + 1)
    ELSE <<s[i]>> \o SubFrom(s, ends, repl, i + 1)

re_sub(s, ends, repl) == SubFrom(s, ends, repl, 1)

\* s.replace(old, new), old not empty
str_replace(s, old, new) ==
    re_sub(s, [i \in 1..Len(s) |-> IF StartsWithAt(s, i, old) THEN i + Len(old) - 1 ELSE 0],
              [i \in 1..Len(s) |-> new])

\* str.strip()
str_strip(s) ==
    IF \A i \in 1..Len(s) : IsSpace(s[i]) THEN << >>
    ELSE LET a == CHOOSE i \in 1..Len(s) :
                      ~IsSpace(s[i]) /\ \A k \in 1..(i - 1) : IsSpace(s[k])
             b == CHOOSE i \in 1..Len(s) :
                      ~IsSpace(s[i]) /\ \A k \in (i + 1)..Len(s) : IsSpace(s[k])
         IN SubSeq(s, a, b)

\* The named character references html.unescape knows, of which the model
\* has these; each is known with and without its semicolon.
html5 ==
    [name \in {Chars("amp"), Chars("lt"), Chars("gt"), Chars("quot"), Chars("nbsp")} |->
        CASE name = Chars("amp") -> "&"
          [] name = Chars("lt") -> "<"
          [] name = Chars("gt") -> ">"
          [] name = Chars("quot") -> "\""
          [] OTHER -> Nbsp]

\* [^\t\n\f <&#;] of the character reference pattern of html.unescape
IsRefNameChar(c) == c \notin {Tab, Newline, " ", "<", "&", "#", ";"}

Min2(a, b) == IF a < b THEN a ELSE b

\* html.unescape(s), named references: "&", a name of 1 to 32 characters
\* and an optional ";".  A known name is replaced by its character;
\* otherwise the longest known proper prefix of two or more characters is.
html_unescape(s) ==
    LET inName == [k \in 1..Len(s) |-> IsRefNameChar(s[k])]
        nameEnd(i) == Min2(RunEnd(s, i + 1, inName), i + 32)
        matchEnd(i) ==
            IF s[i] = "&" /\ nameEnd(i) > i
            THEN IF nameEnd(i) < Len(s) /\ s[nameEnd(i) + 1] = ";"
                 THEN nameEnd(i) + 1 ELSE nameEnd(i)
            ELSE 0
        replace(i) ==
            LET name == SubSeq(s, i + 1, nameEnd(i))
                ref == SubSeq(s, i + 1, matchEnd(i))
                known == { x \in 2..(Len(ref) - 1) : SubSeq(ref, 1, x) \in DOMAIN html5 }
            IN IF name \in DOMAIN html5 THEN <<html5[name]>>
               ELSE IF known # {}
               THEN LET x == CHOOSE y \in known : \A z \in known : z <= y
                    IN <<html5[SubSeq(ref, 1, x)]>> \o From(ref, x)
               ELSE <<"&">> \o ref
    IN re_sub(s, [i \in 1..Len(s) |-> matchEnd(i)],
                 [i \in 1..Len(s) |-> IF matchEnd(i) = 0 THEN << >> ELSE replace(i)])

IsNotGt(c) == c # ">"

\* re.sub(r'<[^>]+>', '', s)
strip_tags(s) ==
    LET matchEnd(i) ==
            IF s[i] = "<"
            THEN LET r == RunEnd(s, i + 1, [k \in 1..Len(s) |-> IsNotGt(s[k])])
                 IN IF r > i /\ r < Len(s) THEN r + 1 ELSE 0
            ELSE 0
    IN re_sub(s, [i \in 1..Len(s) |-> matchEnd(i)], [i \in 1..Len(s) |-> << >>])

remove_html(text) == strip_tags(html_unescape(text))

\* One character of a URL after its prefix: a letter, a digit, one of the
\* range $-_ with @ . & +, or one of ! * \ ( ) and the comma.  (The
\* alternative %XX is two characters of these.)
IsUrlChar(c) ==
    \/ IsAsciiLetter(c) \/ IsDigit(c)
    \/ (c \in DOMAIN AsciiOrd /\ Ord(c) >= 36 /\ Ord(c) <= 95)
    \/ c \in {"@", ".", "&", "+", "!", "*", "\\", "(", ")", ","}

\* URL_PATTERN matched at place i
UrlEnd(s, i) ==
    LET inUrl == [k \in 1..Len(s) |-> IsUrlChar(s[k])]
        after(p) == LET r == RunEnd(s, p, inUrl) IN IF r >= p THEN r ELSE 0
    IN IF StartsWithAt(s, i, Chars("https://")) THEN after(i + 8)
       ELSE IF StartsWithAt(s, i, Chars("http://")) THEN after(i + 7)
       ELSE IF StartsWithAt(s, i, Chars("www.")) THEN after(i + 4)
       ELSE 0

remove_urls(text) ==
    re_sub(text, [i \in 1..Len(text) |-> UrlEnd(text, i)],
                 [i \in 1..Len(text) |-> Chars("[URL]")])

\* \b between the places i - 1 and i
WordBoundary(s, i) ==
    (i > 1 /\ i - 1 <= Len(s) /\ IsWord(s[i - 1])) # (i >= 1 /\ i <= Len(s) /\ IsWord(s[i]))

IsEmailLocalChar(c) ==
    IsAsciiLetter(c) \/ IsDigit(c) \/ c \in {".", "_", "%", "+", "-"}
IsEmailDomainChar(c) == IsAsciiLetter(c) \/ IsDigit(c) \/ c \in {".", "-"}
\* [A-Z|a-z]
IsEmailTldChar(c) == IsAsciiLetter(c) \/ c = "|"

\* EMAIL_PATTERN matched at place i: the domain is the longest that lets
\* the rest match, and then the last part is the longest that ends at \b.
EmailEnd(s, i) ==
    LET at == RunEnd(s, i, [k \in 1..Len(s) |-> IsEmailLocalChar(s[k])]) + 1
        r == RunEnd(s, at + 1, [k \in 1..Len(s) |-> IsEmailDomainChar(s[k])])
        tldEnds(d) ==
            { e \in (d + 3)..RunEnd(s, d + 2, [k \in 1..Len(s) |-> IsEmailTldChar(s[k])]) :
                WordBoundary(s, e + 1) }
        domains == { d \in (at + 1)..(r - 1) : s[d + 1] = "." /\ tldEnds(d) # {} }
    IN IF WordBoundary(s, i) /\ at > i /\ at <= Len(s) /\ s[at] = "@" /\ domains # {}
       THEN LET d == CHOOSE x \in domains : \A y \in domains : y <= x
            IN CHOOSE e \in tldEnds(d) : \A f \in tldEnds(d) : f <= e
       ELSE 0

remove_emails(text) ==
    re_sub(text, [i \in 1..Len(text) |-> EmailEnd(text, i)],
                 [i \in 1..Len(text) |-> Chars("[EMAIL]")])

\* A sign followed by \w+, matched at place i
SignWordEnd(s, i, sign) ==
    LET e == RunEnd(s, i + 1, [k \in 1..Len(s) |-> IsWord(s[k])])
    IN IF s[i] = sign /\ e > i THEN e ELSE 0

remove_mentions(text) ==
    re_sub(text, [i \in 1..Len(text) |-> SignWordEnd(text, i, "@")],
                 [i \in 1..Len(text) |-> Chars("[MENTION]")])

remove_hashtags(text, keep_text) ==
    re_sub(text, [i \in 1..Len(text) |-> SignWordEnd(text, i, "#")],
                 [i \in 1..Len(text) |->
                     IF keep_text /\ SignWordEnd(text, i, "#") > 0
                     THEN SubSeq(text, i + 1, SignWordEnd(text, i, "#")) ELSE << >>])

RECURSIVE Flatten(_)
Flatten(ss) == IF ss = << >> THEN << >> ELSE Head(ss) \o Flatten(Tail(ss))

normalize_unicode(text) == Flatten([i \in 1..Len(text) |-> Nfkc(text[i])])

remove_control_characters(text) ==
    SelectSeq(text, LAMBDA c : ~IsCategoryC(c) \/ c \in {Newline, Tab})

\* [!?.;,]
IsMark(c) == c \in {"!", "?", ".", ";", ","}

\* MULTI_PUNCT_PATTERN.sub(r'\1', text): the group is repeated, so \1 is
\* the last mark of the run.
collapse_marks(text) ==
    LET matchEnd(i) ==
            LET e == RunEnd(text, i, [k \in 1..Len(text) |-> IsMark(text[k])])
            IN IF e > i THEN e ELSE 0
    IN re_sub(text, [i \in 1..Len(text) |-> matchEnd(i)],
                    [i \in 1..Len(text) |->
                        IF matchEnd(i) = 0 THEN << >> ELSE <<text[matchEnd(i)]>>])

\* The first argument of replace at line 128, a string in triple quotes.
Line128Old == Chars(", \"'\").replace(")

normalize_punctuation(text) ==
    LET collapsed == collapse_marks(text)
        quotes == str_replace(str_replace(collapsed, <<"\"">>, <<"\"">>),
                              <<"\"">>, <<"\"">>)
        apostrophes == str_replace(quotes, Line128Old, <<"'">>)
        dashes == str_replace(str_replace(apostrophes, <<EnDash>>, <<"-">>),
                              <<EmDash>>, <<"-">>)
    IN str_replace(dashes, <<Ellipsis>>, <<".", ".", ".">>)

\* MULTI_SPACE_PATTERN.sub(' ', text)
collapse_spaces(text) ==
    LET matchEnd(i) ==
            IF IsSpace(text[i])
            THEN RunEnd(text, i, [k \in 1..Len(text) |-> IsSpace(text[k])]) ELSE 0
    IN re_sub(text, [i \in 1..Len(text) |-> matchEnd(i)],
                    [i \in 1..Len(text) |-> <<" ">>])

normalize_whitespace_no_strip(text) == collapse_spaces(text)

normalize_whitespace(text) == str_strip(collapse_spaces(text))

\* The emoji_pattern character class, by code point.
IsEmojiPatternChar(c) ==
    LET n == Ord(c) IN
    \/ n >= 128512 /\ n <= 128591      \* 1F600-1F64F
    \/ n >= 127744 /\ n <= 128511      \* 1F300-1F5FF
    \/ n >= 128640 /\ n <= 128767      \* 1F680-1F6FF
    \/ n >= 127462 /\ n <= 127487      \* 1F1E0-1F1FF
    \/ n >= 9986 /\ n <= 10160         \* 2702-27B0
    \/ n >= 9410 /\ n <= 127569        \* 24C2-1F251

normalize_emoji(text, keep) ==
    IF keep THEN text ELSE SelectSeq(text, LAMBDA c : ~IsEmojiPatternChar(c))

\* HINDI_ROMANIZED_NORMALIZATIONS as the pairs <<key, value>> of the dict
\* the literal builds.
HindiPairs ==
    { <<"namaste", "namaste">>, <<"namaskar", "namaskar">>,
      <<"dhanyavaad", "dhanyavad">>, <<"dhanyavad", "dhanyavad">>,
      <<"thanks", "thanks">>, <<"shukriya", "shukriya">>,
      <<"shukria", "shukriya">>, <<"bhai", "bhai">>, <<"bhaii", "bhai">>,
      <<"bhaiya", "bhaiya">>, <<"bhaiyya", "bhaiya">>, <<"yaar", "yaar">>,
      <<"yar", "yaar">>, <<"yaara", "yara">>, <<"hai", "hai">>,
      <<"he", "hai">>, <<"hain", "hain">>, <<"hoon", "hoon">>,
      <<"hun", "hoon">>, <<"hu", "hoon">>, <<"nahi", "nahi">>,
      <<"nahin", "nahi">>, <<"nai", "nahi">>, <<"nhi", "nahi">>,
      <<"kya", "kya">>, <<"kia", "kya">>, <<"kyaa", "kya">>,
      <<"mein", "mein">>, <<"main", "mein">>, <<"me", "mein">>,
      <<"aap", "aap">>, <<"aapka", "aapka">>, <<"aapki", "aapki">>,
      <<"kar", "kar">>, <<"karo", "karo">>, <<"karna", "karna">>,
      <<"karta", "karta">>, <<"tha", "tha">>, <<"thi", "thi">>,
      <<"the", "the">>, <<"thee", "the">>, <<"koi", "koi">>,
      <<"kisi", "kisi">>, <<"kisiko", "kisiko">>, <<"bhi", "bhi">>,
      <<"b", "bhi">>, <<"toh", "toh">>, <<"to", "toh">>, <<"kuch", "kuch">>,
      <<"kuchh", "kuch">>, <<"kucch", "kuch">>, <<"bahut", "bahut">>,
      <<"bohot", "bahut">>, <<"bhot", "bahut">>, <<"acha", "acha">>,
      <<"accha", "acha">>, <<"achha", "acha">>, <<"achchha", "acha">>,
      <<"bura", "bura">>, <<"buraa", "bura">>, <<"matlab", "matlab">>,
      <<"mtlb", "matlab">>, <<"matlb", "matlab">>, <<"yeh", "yeh">>,
      <<"ye", "yeh">>, <<"yee", "yeh">>, <<"woh", "woh">>, <<"wo", "woh">>,
      <<"vo", "woh">>, <<"kahan", "kahan">>, <<"kaha", "kaha">>,
      <<"kahaan", "kahan">>, <<"kaise", "kaise">>, <<"kese", "kaise">>,
      <<"kaese", "kaise">>, <<"kyun", "kyun">>, <<"kyu", "kyun">>,
      <<"kyon", "kyun">>, <<"why", "kyun">>, <<"abhi", "abhi">>,
      <<"abi", "abhi">>, <<"abhee", "abhi">>, <<"log", "log">>,
      <<"lok", "log">>, <<"loog", "log">>, <<"loag", "log">>,
      <<"sahi", "sahi">>, <<"sahee", "sahi">>, <<"shi", "sahi">>,
      <<"galat", "galat">>, <<"ghalat", "galat">>, <<"glat", "galat">>,
      <<"dekho", "dekho">>, <<"dekh", "dekh">>, <<"dekhna", "dekhna">>,
      <<"suno", "suno">>, <<"sun", "sun">>, <<"sunna", "sunna">>,
      <<"samjho", "samajho">>, <<"samajh", "samajh">>,
      <<"smjho", "samajho">>, <<"dost", "dost">>, <<"dosth", "dost">>,
      <<"doost", "dost">>, <<"pakka", "pakka">>, <<"paka", "pakka">>,
      <<"pukka", "pakka">>, <<"chalo", "chalo">>, <<"chal", "chal">>,
      <<"chlo", "chalo">>, <<"theek", "theek">>, <<"thik", "theek">>,
      <<"thek", "theek">> }

\* The dict of pairs with one value for each key.
DictOf(pairs) ==
    [k \in {Chars(p[1]) : p \in pairs} |->
        Chars((CHOOSE p \in pairs : Chars(p[1]) = k)[2])]

\* The dictionary with the value of 'yaar' a key with another value.
HINDI_with_chain ==
    DictOf((HindiPairs \ {<<"yaar", "yaar">>}) \cup {<<"yaar", "yaara">>})

HINDI_ROMANIZED_NORMALIZATIONS == DictOf(HindiPairs)

\* str.capitalize()
str_capitalize(s) ==
    [i \in 1..Len(s) |-> IF i = 1 THEN UpperChar(s[i]) ELSE LowerChar(s[i])]

\* re.findall(r'[^\w]+', word): the runs of characters that are not \w
RECURSIVE NonWordRunsFrom(_, _)
NonWordRunsFrom(word, i) ==
    IF i > Len(word) THEN << >>
    ELSE IF IsWord(word[i]) THEN NonWordRunsFrom(word, i + 1)
    ELSE LET e == RunEnd(word, i, [k \in 1..Len(word) |-> ~IsWord(word[k])])
         IN <<SubSeq(word, i, e)>> \o NonWordRunsFrom(word, e + 1)

\* Lines 171-189 for one word of text.split().
normalize_word(word, word_dict) ==
    LET clean_word == SelectSeq(str_lower(word), IsWord)
        punct == NonWordRunsFrom(word, 1)
    IN IF clean_word \in DOMAIN word_dict
       THEN LET looked_up == word_dict[clean_word]
                normalized == IF IsUpper(word[1]) THEN str_capitalize(looked_up)
                              ELSE looked_up
            IN IF punct # << >> THEN normalized \o punct[1] ELSE normalized
       ELSE word

normalize_romanized_hindi(text, word_dict) ==
    LET words == str_split(text)
    IN str_join(<<" ">>, [i \in 1..Len(words) |-> normalize_word(words[i], word_dict)])

\* ------------------------------------------------ the normalizer's callers

\* Largest number of pieces of a text handed to normalize_text.
MaxPieces == 2

\* Largest length of a text handed to one step function on its own.
MaxLen == 3

\* Largest number of words of a text handed to normalize_romanized_hindi.
MaxWords == 2

\* The keyword arguments of normalize_text.
Configs ==
    [remove_html_tags : BOOLEAN, remove_url : BOOLEAN, remove_email : BOOLEAN,
     remove_mention : BOOLEAN, normalize_hashtag : BOOLEAN,
     normalize_punct : BOOLEAN, normalize_ws : BOOLEAN,
     normalize_unicode_chars : BOOLEAN, normalize_hindi : BOOLEAN,
     keep_emoji : BOOLEAN, lowercase : BOOLEAN]

\* The defaults of the signature of normalize_text.
DefaultConfig ==
    [remove_html_tags |-> TRUE, remove_url |-> TRUE, remove_email |-> TRUE,
     remove_mention |-> TRUE, normalize_hashtag |-> TRUE,
     normalize_punct |-> TRUE, normalize_ws |-> TRUE,
     normalize_unicode_chars |-> TRUE, normalize_hindi |-> TRUE,
     keep_emoji |-> TRUE, lowercase |-> FALSE]

\* presets of get_normalizer
presets ==
    [default |-> DefaultConfig,
     strict |-> [DefaultConfig EXCEPT !.normalize_hashtag = FALSE,
                                      !.keep_emoji = FALSE, !.lowercase = TRUE],
     minimal |-> [DefaultConfig EXCEPT !.remove_url = FALSE, !.remove_email = FALSE,
                                       !.remove_mention = FALSE,
                                       !.normalize_hashtag = FALSE,
                                       !.normalize_hindi = FALSE],
     code_mixed |-> DefaultConfig]

\* Every step enabled: emoji removed, lowercase on.
AllStepsConfig == [DefaultConfig EXCEPT !.keep_emoji = FALSE, !.lowercase = TRUE]

TextConfigs == {presets[p] : p \in DOMAIN presets} \cup {AllStepsConfig}

\* normalize_text called with normalize_ws=False, the word step on and off.
WsOffConfigs ==
    { [DefaultConfig EXCEPT !.normalize_ws = FALSE],
      [DefaultConfig EXCEPT !.normalize_ws = FALSE, !.normalize_hindi = FALSE] }

\* An argument that is not a str and not None: the int 42.
Int42 == [isStr |-> FALSE, chars |-> <<"4", "2">>]

\* Arguments without content: not a str, empty, whitespace only.
BlankArgs ==
    { None, Int42, Str(<< >>), Str(<<" ">>), Str(<<" ", Tab, Newline, " ">>),
      Str(<<Nbsp>>), Str(<<VerticalTab, " ">>) }

\* The inputs of the gold list of validate_normalizations.
GoldInputs ==
    { "bhai", "bhaii", "yar", "nai", "kia", "main", "bohot", "achha", "kese", "kyu",
      "Check https://example.com here", "www.example.com is good",
      "What!!!!!", "Really???", "#bollywood rocks", "Too   many    spaces",
      "Yar  kya   baat  hai!!!" }

\* Pieces of the other texts handed to normalize_text.
Pieces ==
    { Chars("Yar"), Chars("  "), Chars("!!!"), Chars("<b>x</b>"), Chars("&amp;"),
      Chars("http://x.co"), Chars("a@b.co"), Chars("@user"), Chars("#tag"),
      <<Grinning>>, <<Ellipsis>>, <<Bell, Newline>> }

RECURSIVE PieceTexts(_)
PieceTexts(n) ==
    IF n = 0 THEN {<< >>}
    ELSE PieceTexts(n - 1) \cup { t \o p : t \in PieceTexts(n - 1), p \in Pieces }

TextArgs == {Str(Chars(g)) : g \in GoldInputs} \cup {Str(t) : t \in PieceTexts(MaxPieces)}

\* All texts of at most n characters of the alphabet.
RECURSIVE StringsOver(_, _)
StringsOver(alphabet, n) ==
    IF n = 0 THEN {<< >>}
    ELSE StringsOver(alphabet, n - 1) \cup
         { Append(t, c) : t \in StringsOver(alphabet, n - 1), c \in alphabet }

PunctuationArgs ==
    StringsOver({"!", "?", ".", "a", " ", "\"", Ellipsis, EnDash, LeftDoubleQuote}, MaxLen)
WhitespaceArgs == StringsOver({" ", Tab, Newline, Nbsp, "a", "B"}, MaxLen)
LowerArgs == StringsOver({"a", "A", "Z", "!", CircledM, Cjk}, MaxLen)

\* A word around a dictionary key or another stem: as it is, capitalized,
\* in capitals, with marks after it, before it, inside it, around it.
Decorated(stem) ==
    { stem, str_capitalize(stem), [i \in 1..Len(stem) |-> UpperChar(stem[i])],
      stem \o <<"!">>, stem \o <<"!", "?">>, str_capitalize(stem) \o <<".">>,
      <<"!">> \o stem, <<"\"">> \o stem \o <<"\"">>,
      <<stem[1], "-">> \o Tail(stem) \o <<"?">> }

Stems == DOMAIN HINDI_ROMANIZED_NORMALIZATIONS \cup {Chars("baat"), Chars("yara")}

HindiWords == UNION {Decorated(s) : s \in Stems} \cup {<<"!">>, <<"?", "!">>, <<"-">>}

\* Words of the texts of more than one word.
FewWords ==
    { Chars("yar"), Chars("Kya"), Chars("!he"), Chars("baat"), Chars("B."), <<"!">> }

RECURSIVE WordTexts(_)
WordTexts(n) ==
    IF n = 1 THEN FewWords
    ELSE WordTexts(n - 1) \cup
         { t \o sep \o w : t \in WordTexts(n - 1), sep \in {<<" ">>, <<" ", " ">>},
                           w \in FewWords }

HindiArgs == HindiWords \cup WordTexts(MaxWords)

EmojiArgs == StringsOver({"a", Grinning, CircledM, Cjk, Hangul}, MaxLen)

StepFunctions ==
    {"normalize_romanized_hindi", "normalize_punctuation", "normalize_whitespace",
     "lower", "normalize_emoji"}

\* The step function f applied to the text t; normalize_emoji takes its
\* keep from the configuration c.
Apply(f, t, c) ==
    CASE f = "normalize_romanized_hindi" ->
             normalize_romanized_hindi(t, HINDI_ROMANIZED_NORMALIZATIONS)
      [] f = "normalize_punctuation" -> normalize_punctuation(t)
      [] f = "normalize_whitespace" -> normalize_whitespace(t)
      [] f = "lower" -> str_lower(t)
      [] f = "normalize_emoji" -> normalize_emoji(t, c.keep_emoji)

\* The steps with the Romanized-word step ahead of the punctuation step.
StepAfter_hindi_first(s) ==
    CASE s = "html" -> "url"
      [] s = "url" -> "email"
      [] s = "email" -> "mention"
      [] s = "mention" -> "hashtag"
      [] s = "hashtag" -> "unicode"
      [] s = "unicode" -> "emoji"
      [] s = "emoji" -> "hindi"
      [] s = "hindi" -> "punct"
      [] s = "punct" -> "ws"
      [] s = "ws" -> "lower"
      [] s = "lower" -> "return"

\* The step of normalize_text that follows a step (lines 262-302).
StepAfter(s) ==
    CASE s = "html" -> "url"
      [] s = "url" -> "email"
      [] s = "email" -> "mention"
      [] s = "mention" -> "hashtag"
      [] s = "hashtag" -> "unicode"
      [] s = "unicode" -> "emoji"
      [] s = "emoji" -> "punct"
      [] s = "punct" -> "hindi"
      [] s = "hindi" -> "ws"
      [] s = "ws" -> "lower"
      [] s = "lower" -> "return"

\* ------------------------------------------------------------ the program

VARIABLES
    entry,              \* the function the caller calls
    df,                 \* the caller's DataFrame
    exact, near,        \* flags of deduplicate_dataframe
    near_threshold,     \* threshold / near_threshold
    keep,
    pc,                 \* where the call is
    raised,             \* the exception that left the call, or "none"
    df_columns,         \* columns of the caller's DataFrame object
    stats,              \* stats of deduplicate_dataframe
    df_dedup,           \* df_dedup of deduplicate_dataframe
    exact_out,          \* what remove_exact_duplicates returned
    again,              \* what it returned when called on its own output
    near_df,            \* df of remove_near_duplicates
    texts,              \* texts of find_near_duplicates
    sim,                \* cosine similarities of the vectorized texts
    global_idx,         \* the row the scan is at
    duplicate_clusters,
    processed,
    indices_to_remove,
    near_out,           \* what remove_near_duplicates returned
    fn,                 \* the function of text_normalization the caller calls
    arg,                \* its argument text
    cfg,                \* the keyword arguments of normalize_text
    step,               \* where the call is
    text,               \* text of normalize_text
    ran,                \* the steps normalize_text has run, in order
    ret,                \* what the call returned
    ret_again,          \* what the function returned when called on ret
    anns,               \* df of aggregate_annotations
    method,
    agg_pc,             \* where the call of aggregate_annotations is
    item_no,            \* place of the loop in df['id'].unique()
    aggregated,
    agg_ret,            \* the rows of the DataFrame the call returned
    source,             \* "reddit" or "youtube": the process_ function called
    raw,                \* the rows of raw_comments.csv
    idx,                \* idx of the loop over df.iterrows()
    seen_ids,
    data_list,
    id_pc,              \* where the call of process_reddit / process_youtube is
    df_processed

dedup_vars == <<entry, df, exact, near, near_threshold, keep, pc, raised, df_columns,
                stats, df_dedup, exact_out, again, near_df, texts, sim, global_idx,
                duplicate_clusters, processed, indices_to_remove, near_out>>

norm_vars == <<fn, arg, cfg, step, text, ran, ret, ret_again>>

agg_vars == <<anns, method, agg_pc, item_no, aggregated, agg_ret>>

id_vars == <<source, raw, idx, seen_ids, data_list, id_pc, df_processed>>

script_vars == <<agg_vars, id_vars>>

vars == <<dedup_vars, norm_vars, script_vars>>

inputs == <<entry, df, exact, near, near_threshold, keep>>
near_locals == <<near_df, texts, sim, global_idx, duplicate_clusters, processed,
                 indices_to_remove, near_out>>

\* aggregate_annotations is not called.
AggIdle ==
    /\ anns = << >>
    /\ method = "none"
    /\ agg_pc = "idle"
    /\ item_no = 0
    /\ aggregated = << >>
    /\ agg_ret = << >>

\* Neither process_reddit nor process_youtube is called.
IdIdle ==
    /\ source = "none"
    /\ raw = << >>
    /\ idx = 0
    /\ seen_ids = {}
    /\ data_list = << >>
    /\ id_pc = "idle"
    /\ df_processed = << >>

NoResult == [df |-> << >>, n |-> 0]
NoStats ==
    [original_size |-> 0, exact_duplicates_removed |-> 0,
     near_duplicates_removed |-> 0, final_size |-> 0, total_removed |-> 0,
     dedup_rate |-> <<0, 1>>]

Init ==
    /\ entry \in {"remove_exact_duplicates", "remove_near_duplicates",
                  "deduplicate_dataframe"}
    /\ df \in CASE entry = "remove_exact_duplicates" -> DataFrames(ExactTexts)
                 [] entry = "remove_near_duplicates" -> NearDataFrames
                 [] OTHER -> FreshDataFrames(PipelineTexts)
    /\ keep \in Keeps
    /\ exact \in IF entry = "deduplicate_dataframe" THEN BOOLEAN
                 ELSE {entry = "remove_exact_duplicates"}
    /\ near \in IF entry = "deduplicate_dataframe" THEN BOOLEAN
                ELSE {entry = "remove_near_duplicates"}
    \* a threshold outside (0, 1] comes with a freshly built frame of str texts
    /\ near_threshold \in
            IF /\ entry = "remove_near_duplicates" /\ IsRangeIndex(df)
               /\ \A i \in 1..Len(df) : df[i].text.isStr
            THEN Thresholds \cup InvalidThresholds
            ELSE IF near THEN Thresholds ELSE {95}
    /\ pc = "call"
    /\ raised = "none"
    /\ df_columns = {"text"}
    /\ stats = NoStats
    /\ df_dedup = << >>
    /\ exact_out = NoResult
    /\ again = NoResult
    /\ near_df = << >>
    /\ texts = << >>
    /\ sim = << >>
    /\ global_idx = 0
    /\ duplicate_clusters = << >>
    /\ processed = {}
    /\ indices_to_remove = {}
    /\ near_out = NoResult
    /\ AggIdle
    /\ IdIdle
    /\ fn = "none"
    /\ arg = None
    /\ cfg = DefaultConfig
    /\ step = "idle"
    /\ text = << >>
    /\ ran = << >>
    /\ ret = << >>
    /\ ret_again = << >>

\* remove_exact_duplicates called by the caller on df: the hash column is
\* assigned on the caller's DataFrame and dropped from the copy only.
CallRemoveExact ==
    /\ pc = "call" /\ entry = "remove_exact_duplicates"
    /\ exact_out' = remove_exact_duplicates(df, keep)
    /\ df_columns' = df_columns \cup {"_text_hash"}
    /\ pc' = "exact_returned"
    /\ UNCHANGED <<norm_vars, script_vars, inputs, raised, stats, df_dedup, again, near_locals>>

\* The caller passes the returned DataFrame to remove_exact_duplicates again.
CallRemoveExactAgain ==
    /\ pc = "exact_returned" /\ entry = "remove_exact_duplicates"
    /\ again' = remove_exact_duplicates(exact_out.df, keep)
    /\ pc' = "exact_again"
    /\ UNCHANGED <<norm_vars, script_vars, inputs, raised, df_columns, stats, df_dedup, exact_out, near_locals>>

\* deduplicate_dataframe, lines 238-247: stats and the working copy.
DedupStart ==
    /\ pc = "call" /\ entry = "deduplicate_dataframe"
    /\ stats' = [NoStats EXCEPT !.original_size = Len(df), !.final_size = Len(df)]
    /\ df_dedup' = df
    /\ pc' = "exact_step"
    /\ UNCHANGED <<norm_vars, script_vars, inputs, raised, df_columns, exact_out, again, near_locals>>

\* lines 250-252
ExactPass ==
    /\ pc = "exact_step" /\ exact
    /\ LET r == remove_exact_duplicates(df_dedup, keep) IN
       /\ exact_out' = r
       /\ df_dedup' = r.df
       /\ stats' = [stats EXCEPT !.exact_duplicates_removed = r.n]
    /\ pc' = "near_step"
    /\ UNCHANGED <<norm_vars, script_vars, inputs, raised, df_columns, again, near_locals>>

SkipExact ==
    /\ pc = "exact_step" /\ ~exact
    /\ pc' = "near_step"
    /\ UNCHANGED <<norm_vars, script_vars, inputs, raised, df_columns, stats, df_dedup, exact_out, again,
                   near_locals>>

near_arg_original == df

\* The DataFrame deduplicate_dataframe hands to remove_near_duplicates
\* (line 256).
near_arg == df_dedup

\* remove_near_duplicates is entered (by the caller, or at line 256) and
\* calls find_near_duplicates(df[text_col].tolist(), threshold).
CallRemoveNear ==
    /\ \/ pc = "call" /\ entry = "remove_near_duplicates"
       \/ pc = "near_step" /\ near
    /\ LET d == IF entry = "remove_near_duplicates" THEN df ELSE near_arg IN
       /\ near_df' = d
       /\ texts' = [i \in 1..Len(d) |-> d[i].text]
    /\ pc' = "find"
    /\ UNCHANGED <<norm_vars, script_vars, inputs, raised, df_columns, stats, df_dedup, exact_out, again,
                   sim, global_idx, duplicate_clusters, processed,
                   indices_to_remove, near_out>>

SkipNear ==
    /\ pc = "near_step" /\ ~near
    /\ pc' = "stats_step"
    /\ UNCHANGED <<norm_vars, script_vars, inputs, raised, df_columns, stats, df_dedup, exact_out, again,
                   near_locals>>

\* find_near_duplicates, lines 103-104.
FindEmpty ==
    /\ pc = "find" /\ Len(texts) = 0
    /\ duplicate_clusters' = << >>
    /\ pc' = "select"
    /\ UNCHANGED <<norm_vars, script_vars, inputs, raised, df_columns, stats, df_dedup, exact_out, again,
                   near_df, texts, sim, global_idx, processed, indices_to_remove,
                   near_out>>

\* lines 106-125: fit_transform.  A text that is not a str has no lower():
\* AttributeError, not caught.  An empty vocabulary is a ValueError, caught:
\* no clusters.  Otherwise the similarities are those of the vectors.
Vectorize ==
    /\ pc = "find" /\ Len(texts) > 0
    /\ IF \E i \in 1..Len(texts) : ~texts[i].isStr
       THEN /\ raised' = "AttributeError"
            /\ pc' = "raised"
            /\ UNCHANGED <<sim, global_idx, duplicate_clusters, processed>>
       ELSE \/ /\ duplicate_clusters' = << >>
               /\ pc' = "select"
               /\ UNCHANGED <<raised, sim, global_idx, processed>>
            \/ /\ \E u \in [UpperPairs(Len(texts)) -> SimValues] :
                    sim' = SimMatrix(Len(texts), u)
               /\ global_idx' = 0
               /\ duplicate_clusters' = << >>
               /\ processed' = {}
               /\ pc' = "scan"
               /\ UNCHANGED raised
    /\ UNCHANGED <<norm_vars, script_vars, inputs, df_columns, stats, df_dedup, exact_out, again, near_df,
                   texts, indices_to_remove, near_out>>

\* lines 138-152 for one global_idx of the batch it lies in.
ScanRow ==
    /\ pc = "scan" /\ global_idx < Len(texts)
    /\ LET r == scan_row(sim, Len(texts), near_threshold, batch_size, global_idx,
                         duplicate_clusters, processed)
       IN /\ duplicate_clusters' = r.clusters
          /\ processed' = r.processed
    /\ global_idx' = global_idx + 1
    /\ UNCHANGED <<norm_vars, script_vars, inputs, pc, raised, df_columns, stats, df_dedup, exact_out, again,
                   near_df, texts, sim, indices_to_remove, near_out>>

\* line 157
ScanReturn ==
    /\ pc = "scan" /\ global_idx >= Len(texts)
    /\ pc' = "select"
    /\ UNCHANGED <<norm_vars, script_vars, inputs, raised, df_columns, stats, df_dedup, exact_out, again,
                   near_locals>>

\* remove_near_duplicates, lines 186-206; the rate printed at line 204
\* divides by len(df).  Back in deduplicate_dataframe, line 257.
RemoveNear ==
    /\ pc = "select"
    /\ LET rem == to_remove(duplicate_clusters, keep)
           out == [df |-> mask_by_label(near_df, rem), n |-> Cardinality(rem)]
       IN /\ indices_to_remove' = rem
          /\ IF Len(near_df) = 0
             THEN /\ raised' = "ZeroDivisionError"
                  /\ pc' = "raised"
                  /\ UNCHANGED <<near_out, df_dedup, stats>>
             ELSE /\ near_out' = out
                  /\ UNCHANGED raised
                  /\ IF entry = "deduplicate_dataframe"
                     THEN /\ df_dedup' = out.df
                          /\ stats' = [stats EXCEPT !.near_duplicates_removed = out.n]
                          /\ pc' = "stats_step"
                     ELSE /\ pc' = "near_returned"
                          /\ UNCHANGED <<df_dedup, stats>>
    /\ UNCHANGED <<norm_vars, script_vars, inputs, df_columns, exact_out, again, near_df, texts, sim,
                   global_idx, duplicate_clusters, processed>>

\* deduplicate_dataframe, lines 259-262 and 275; dedup_rate is kept as the
\* fraction <<total_removed * 100, original_size>>.
UpdateStats ==
    /\ pc = "stats_step"
    /\ LET total == stats.original_size - Len(df_dedup) IN
       IF stats.original_size = 0
       THEN /\ raised' = "ZeroDivisionError"
            /\ pc' = "raised"
            /\ stats' = [stats EXCEPT !.final_size = Len(df_dedup),
                                      !.total_removed = total]
       ELSE /\ stats' = [stats EXCEPT !.final_size = Len(df_dedup),
                                      !.total_removed = total,
                                      !.dedup_rate = <<total * 100, stats.original_size>>]
            /\ pc' = "dedup_returned"
            /\ UNCHANGED raised
    /\ UNCHANGED <<norm_vars, script_vars, inputs, df_columns, df_dedup, exact_out, again, near_locals>>

Next ==
    \/ CallRemoveExact
    \/ CallRemoveExactAgain
    \/ DedupStart
    \/ ExactPass
    \/ SkipExact
    \/ CallRemoveNear
    \/ SkipNear
    \/ FindEmpty
    \/ Vectorize
    \/ ScanRow
    \/ ScanReturn
    \/ RemoveNear
    \/ UpdateStats

Spec == Init /\ [][Next]_vars

\* --------------------------------------------------- the normalizer called

\* Nothing of the deduplication is called.
DedupIdle ==
    /\ entry = "none"
    /\ df = << >>
    /\ keep = "first"
    /\ exact = FALSE
    /\ near = FALSE
    /\ near_threshold = 95
    /\ pc = "idle"
    /\ raised = "none"
    /\ df_columns = {"text"}
    /\ stats = NoStats
    /\ df_dedup = << >>
    /\ exact_out = NoResult
    /\ again = NoResult
    /\ near_df = << >>
    /\ texts = << >>
    /\ sim = << >>
    /\ global_idx = 0
    /\ duplicate_clusters = << >>
    /\ processed = {}
    /\ indices_to_remove = {}
    /\ near_out = NoResult

NormInit ==
    /\ DedupIdle
    /\ AggIdle
    /\ IdIdle
    /\ fn \in {"normalize_text"} \cup StepFunctions
    /\ arg \in CASE fn = "normalize_text" -> BlankArgs \cup TextArgs
                 [] fn = "normalize_romanized_hindi" -> {Str(t) : t \in HindiArgs}
                 [] fn = "normalize_punctuation" -> {Str(t) : t \in PunctuationArgs}
                 [] fn = "normalize_whitespace" -> {Str(t) : t \in WhitespaceArgs}
                 [] fn = "normalize_emoji" -> {Str(t) : t \in EmojiArgs}
                 [] OTHER -> {Str(t) : t \in LowerArgs}
    /\ cfg \in IF fn = "normalize_emoji"
               THEN {DefaultConfig, [DefaultConfig EXCEPT !.keep_emoji = FALSE]}
               ELSE IF fn # "normalize_text" THEN {DefaultConfig}
               ELSE IF arg \in BlankArgs THEN Configs
               ELSE TextConfigs \cup WsOffConfigs
    /\ step = "call"
    /\ text = << >>
    /\ ran = << >>
    /\ ret = << >>
    /\ ret_again = << >>

\* normalize_text, lines 259-260.
Enter ==
    /\ fn = "normalize_text" /\ step = "call"
    /\ IF ~arg.isStr
       THEN /\ ret' = << >>
            /\ step' = "returned"
            /\ UNCHANGED text
       ELSE /\ text' = arg.chars
            /\ step' = "html"
            /\ UNCHANGED ret
    /\ UNCHANGED <<dedup_vars, script_vars, fn, arg, cfg, ran, ret_again>>

\* One step of lines 262-300: when enabled the step rewrites text.
RunStep(name, enabled, result) ==
    /\ fn = "normalize_text" /\ step = name
    /\ IF enabled
       THEN text' = result /\ ran' = Append(ran, name)
       ELSE UNCHANGED <<text, ran>>
    /\ step' = StepAfter(name)
    /\ UNCHANGED <<dedup_vars, script_vars, fn, arg, cfg, ret, ret_again>>

\* lines 263-264
Html == RunStep("html", cfg.remove_html_tags, remove_html(text))
\* lines 267-268
Url == RunStep("url", cfg.remove_url, remove_urls(text))
\* lines 269-270
Email == RunStep("email", cfg.remove_email, remove_emails(text))
\* lines 273-274
Mention == RunStep("mention", cfg.remove_mention, remove_mentions(text))
\* lines 275-276
Hashtag == RunStep("hashtag", cfg.normalize_hashtag, remove_hashtags(text, TRUE))
\* lines 279-281
Unicode ==
    RunStep("unicode", cfg.normalize_unicode_chars,
            remove_control_characters(normalize_unicode(text)))
\* line 284: called whatever keep_emoji is
Emoji == RunStep("emoji", TRUE, normalize_emoji(text, cfg.keep_emoji))
\* lines 287-288
Punct == RunStep("punct", cfg.normalize_punct, normalize_punctuation(text))
\* lines 291-292
Hindi ==
    RunStep("hindi", cfg.normalize_hindi,
            normalize_romanized_hindi(text, HINDI_ROMANIZED_NORMALIZATIONS))
\* lines 295-296
Whitespace == RunStep("ws", cfg.normalize_ws, normalize_whitespace(text))
\* lines 299-300
Lowercase == RunStep("lower", cfg.lowercase, str_lower(text))

\* line 302
Return ==
    /\ fn = "normalize_text" /\ step = "return"
    /\ ret' = text
    /\ step' = "returned"
    /\ UNCHANGED <<dedup_vars, script_vars, fn, arg, cfg, text, ran, ret_again>>

\* The caller calls one step function on arg.
CallStep ==
    /\ fn \in StepFunctions /\ step = "call"
    /\ ret' = Apply(fn, arg.chars, cfg)
    /\ step' = "returned"
    /\ UNCHANGED <<dedup_vars, script_vars, fn, arg, cfg, text, ran, ret_again>>

\* The caller calls the same function on what it returned.
CallStepAgain ==
    /\ fn \in StepFunctions /\ step = "returned"
    /\ ret_again' = Apply(fn, ret, cfg)
    /\ step' = "again"
    /\ UNCHANGED <<dedup_vars, script_vars, fn, arg, cfg, text, ran, ret>>

NormNext ==
    \/ Enter
    \/ Html
    \/ Url
    \/ Email
    \/ Mention
    \/ Hashtag
    \/ Unicode
    \/ Emoji
    \/ Punct
    \/ Hindi
    \/ Whitespace
    \/ Lowercase
    \/ Return
    \/ CallStep
    \/ CallStepAgain

NormSpec == NormInit /\ [][NormNext]_vars

\* ------------------------------------------------- annotations aggregated

\* Largest number of annotations of the frame handed to aggregate_annotations.
MaxAnns == 3

\* A missing label: None, or NaN in a numeric column.
NoLabel == -1

ItemIds == {"a", "b"}
Annotators == {Chars("amy"), Chars("Lead2")}
Methods == {"majority_vote", "adjudicated", "confidence_weighted"}

\* The annotations a method is handed: one row [id, annotator, label,
\* confidence] for each annotation; the annotator's name varies where the
\* method reads it, the confidence where it weighs.
AnnRows(m) ==
    [id : ItemIds,
     annotator : IF m = "adjudicated" THEN Annotators ELSE {Chars("amy")},
     label : {0, 1, NoLabel},
     confidence : IF m = "adjudicated" THEN {"high"} ELSE {"high", "low"}]

AnnFrames(m) == UNION {[1..n -> AnnRows(m)] : n \in 1..MaxAnns}

\* df['id'].unique(): the ids in the order of their first rows
RECURSIVE unique(_)
unique(ids) ==
    IF ids = << >> THEN << >>
    ELSE LET front == unique(SubSeq(ids, 1, Len(ids) - 1))
             last == ids[Len(ids)]
         IN IF \E k \in 1..Len(front) : front[k] = last THEN front
            ELSE Append(front, last)

ItemIdsOf(d) == unique([k \in 1..Len(d) |-> d[k].id])

\* df[df['id'] == item_id]
ItemAnns(d, item_id) ==
    LET is_item(r) == r.id = item_id IN SelectSeq(d, is_item)

\* item_anns['label'].dropna().tolist()
LabelsOf(item_anns) ==
    LET present(r) == r.label # NoLabel
        rows == SelectSeq(item_anns, present)
    IN [k \in 1..Len(rows) |-> rows[k].label]

\* Counter(labels)[l]
CountOf(labels, l) == Cardinality({k \in 1..Len(labels) : labels[k] = l})

\* Counter(labels).most_common(1)[0][0]: among the most frequent labels the
\* one met first.
most_common(labels) ==
    LET first == CHOOSE k \in 1..Len(labels) :
                    /\ \A j \in 1..Len(labels) :
                           CountOf(labels, labels[j]) <= CountOf(labels, labels[k])
                    /\ \A j \in 1..(k - 1) :
                           CountOf(labels, labels[j]) < CountOf(labels, labels[k])
    IN labels[first]

conf_map == [high |-> 3, medium |-> 2, low |-> 1]

RECURSIVE sum(_)
sum(ws) == IF ws = << >> THEN 0 ELSE Head(ws) + sum(Tail(ws))

\* np.mean of the mapped confidences as <<sum, count>>.
avg_confidence(item_anns) ==
    <<sum([k \in 1..Len(item_anns) |-> conf_map[item_anns[k].confidence]]),
      Len(item_anns)>>

\* The row appended at lines 166-178 (the columns the loop computes and the
\* id; text, source, language and code_mixed are copied from the first row,
\* toxic_types and notes are unions over the rows).
AggRow(item_id, final_label, confidence, agreement, item_anns) ==
    [id |-> item_id, label |-> final_label, confidence |-> confidence,
     agreement |-> agreement, n_annotators |-> Len(item_anns)]

\* lines 92-116 and 166-178: agreement is <<votes of the label, votes>>
majority_vote(item_id, item_anns) ==
    LET labels == LabelsOf(item_anns)
    IN IF labels # << >>
       THEN AggRow(item_id, most_common(labels), avg_confidence(item_anns),
                   <<CountOf(labels, most_common(labels)), Len(labels)>>, item_anns)
       ELSE AggRow(item_id, NoLabel, avg_confidence(item_anns), <<0, 1>>, item_anns)

\* aggregate_annotations(df, method='majority_vote')
aggregate_majority_vote(d) ==
    [k \in 1..Len(ItemIdsOf(d)) |->
        majority_vote(ItemIdsOf(d)[k], ItemAnns(d, ItemIdsOf(d)[k]))]

\* annotator.str.contains('adjudicator|expert|lead', case=False)
is_adjudicator(annotator) ==
    \E word \in {Chars("adjudicator"), Chars("expert"), Chars("lead")} :
        \E i \in 1..Len(annotator) : StartsWithAt(str_lower(annotator), i, word)

\* line 120
adjudicator_ann(item_anns) ==
    LET by_adjudicator(r) == is_adjudicator(r.annotator)
    IN SelectSeq(item_anns, by_adjudicator)

\* lines 122-128
adjudicated(item_id, item_anns) ==
    AggRow(item_id, adjudicator_ann(item_anns)[1].label, <<3, 1>>, <<1, 1>>, item_anns)

\* label_scores[l] of lines 146-149
label_score(item_anns, l) ==
    sum([k \in 1..Len(item_anns) |->
            IF item_anns[k].label = l THEN conf_map[item_anns[k].confidence] ELSE 0])

\* max(label_scores, key=label_scores.get): among the labels of the highest
\* score the one met first.
max_score_label(item_anns) ==
    LET labels == LabelsOf(item_anns)
        first == CHOOSE k \in 1..Len(labels) :
                    /\ \A j \in 1..Len(labels) :
                           label_score(item_anns, labels[j])
                               <= label_score(item_anns, labels[k])
                    /\ \A j \in 1..(k - 1) :
                           label_score(item_anns, labels[j])
                               < label_score(item_anns, labels[k])
    IN labels[first]

\* lines 133-164 and 166-178: agreement is <<score of the label, total weight>>
confidence_weighted(item_id, item_anns) ==
    LET labels == LabelsOf(item_anns)
        total_weight ==
            sum([k \in 1..Len(item_anns) |->
                    IF item_anns[k].label # NoLabel
                    THEN conf_map[item_anns[k].confidence] ELSE 0])
    IN IF labels # << >>
       THEN AggRow(item_id, max_score_label(item_anns), avg_confidence(item_anns),
                   <<label_score(item_anns, max_score_label(item_anns)), total_weight>>,
                   item_anns)
       ELSE AggRow(item_id, NoLabel, avg_confidence(item_anns), <<0, 1>>, item_anns)

\* The label column holds NaN for a missing label when another row has a
\* label (float64), None when no row has one (object).
LabelIsNaN(d, l) == l = NoLabel /\ \E k \in 1..Len(d) : d[k].label # NoLabel

\* The normalizer is not called.
NormIdle ==
    /\ fn = "none"
    /\ arg = None
    /\ cfg = DefaultConfig
    /\ step = "idle"
    /\ text = << >>
    /\ ran = << >>
    /\ ret = << >>
    /\ ret_again = << >>

AggInit ==
    /\ DedupIdle
    /\ NormIdle
    /\ IdIdle
    /\ method \in Methods
    /\ anns \in AnnFrames(method)
    /\ agg_pc = "loop"
    /\ item_no = 0
    /\ aggregated = << >>
    /\ agg_ret = << >>

\* The item of the iteration the loop of line 86 is at, and its rows.
item_id == ItemIdsOf(anns)[item_no + 1]
item_anns == ItemAnns(anns, item_id)

InLoop == agg_pc = "loop" /\ item_no < Len(ItemIdsOf(anns))

\* line 131 is reached: adjudicated, no annotation of an adjudicator
NoAdjudicator == method = "adjudicated" /\ adjudicator_ann(item_anns) = << >>

\* int(final_label) of line 169 is handed NaN.
IntOfNaN ==
    /\ method = "adjudicated"
    /\ adjudicator_ann(item_anns) # << >>
    /\ LabelIsNaN(anns, adjudicator_ann(item_anns)[1].label)

\* One iteration of the loop of lines 86-178 that appends a row.
AggregateItem ==
    /\ InLoop
    /\ ~NoAdjudicator
    /\ ~IntOfNaN
    /\ aggregated' =
           Append(aggregated,
                  CASE method = "majority_vote" -> majority_vote(item_id, item_anns)
                    [] method = "adjudicated" -> adjudicated(item_id, item_anns)
                    [] OTHER -> confidence_weighted(item_id, item_anns))
    /\ item_no' = item_no + 1
    /\ UNCHANGED <<dedup_vars, norm_vars, id_vars, anns, method, agg_pc, agg_ret>>

\* lines 129-131: the function returns what the majority vote over the rows
\* of this item gives.
FallBack ==
    /\ InLoop
    /\ NoAdjudicator
    /\ agg_ret' = aggregate_majority_vote(item_anns)
    /\ agg_pc' = "returned"
    /\ UNCHANGED <<dedup_vars, norm_vars, id_vars, anns, method, item_no, aggregated>>

\* line 169: int(final_label) raises ValueError on NaN
RaiseValueError ==
    /\ InLoop
    /\ IntOfNaN
    /\ agg_pc' = "raised"
    /\ UNCHANGED <<dedup_vars, norm_vars, id_vars, anns, method, item_no, aggregated,
                   agg_ret>>

\* line 180
AggReturn ==
    /\ agg_pc = "loop" /\ item_no = Len(ItemIdsOf(anns))
    /\ agg_ret' = aggregated
    /\ agg_pc' = "returned"
    /\ UNCHANGED <<dedup_vars, norm_vars, id_vars, anns, method, item_no, aggregated>>

AggNext ==
    \/ AggregateItem
    \/ FallBack
    \/ RaiseValueError
    \/ AggReturn

AggSpec == AggInit /\ [][AggNext]_vars

\* ---------------------------------------------------- ids of scraped rows

\* Largest number of rows of raw_comments.csv.
MaxRawRows == 3

\* The 'id' column of raw_comments.csv: an id, the same id followed by a
\* row index, another id.
RawIds == {Chars("x"), Chars("x_1"), Chars("x_2"), Chars("y")}

\* len(clean_text(row.get('text', ''))): empty, one short of 10, 10.
CleanLens == {0, 9, 10}

RawRows == [id : RawIds, clean_len : CleanLens]

RawFrames == UNION {[1..n -> RawRows] : n \in 0..MaxRawRows}

\* str(idx) of the index labels 0, 1, ... of read_csv
RECURSIVE str_int(_)
str_int(n) ==
    IF n < 10 THEN <<Chars("0123456789")[n + 1]>>
    ELSE str_int(n \div 10) \o <<Chars("0123456789")[(n % 10) + 1]>>

\* f"reddit_{original_id}" / f"youtube_{original_id}"
prefixed(src, original_id) == Chars(src) \o <<"_">> \o original_id

\* f"reddit_{original_id}_{idx}" / f"youtube_{original_id}_{idx}"
prefixed_idx(src, original_id, i) ==
    prefixed(src, original_id) \o <<"_">> \o str_int(i)

\* unique_id of lines 428-432 / 490-494
unique_id(src, original_id, i, seen) ==
    IF prefixed(src, original_id) \in seen
    THEN prefixed_idx(src, original_id, i)
    ELSE prefixed(src, original_id)

\* df['id'].duplicated().sum() of check_duplicates
duplicated_sum(ids) ==
    Cardinality({k \in 1..Len(ids) : \E j \in 1..(k - 1) : ids[j] = ids[k]})

IdInit ==
    /\ DedupIdle
    /\ NormIdle
    /\ AggIdle
    /\ source \in {"reddit", "youtube"}
    /\ raw \in RawFrames
    /\ idx = 0
    /\ seen_ids = {}
    /\ data_list = << >>
    /\ id_pc = "loop"
    /\ df_processed = << >>

\* row of the iteration the loop over df.iterrows() is at
row == raw[idx + 1]

InRows == id_pc = "loop" /\ idx < Len(raw)

\* not text or len(text) < 10
TooShort == row.clean_len = 0 \/ row.clean_len < 10

\* lines 421-424 / 483-486: continue
SkipRow ==
    /\ InRows
    /\ TooShort
    /\ idx' = idx + 1
    /\ UNCHANGED <<dedup_vars, norm_vars, agg_vars, source, raw, seen_ids, data_list,
                   id_pc, df_processed>>

\* lines 426-456 / 488-519: the record of the row is appended
AppendRecord ==
    /\ InRows
    /\ ~TooShort
    /\ seen_ids' = seen_ids \cup {unique_id(source, row.id, idx, seen_ids)}
    /\ data_list' =
           Append(data_list, [id |-> unique_id(source, row.id, idx, seen_ids),
                              original_id |-> row.id])
    /\ idx' = idx + 1
    /\ UNCHANGED <<dedup_vars, norm_vars, agg_vars, source, raw, id_pc, df_processed>>

\* lines 458-462 / 521-525
ProcessReturn ==
    /\ id_pc = "loop" /\ idx = Len(raw)
    /\ data_list # << >>
    /\ df_processed' = data_list
    /\ id_pc' = "returned"
    /\ UNCHANGED <<dedup_vars, norm_vars, agg_vars, source, raw, idx, seen_ids,
                   data_list>>

\* lines 460 / 523: df_processed['code_mixed'] of a frame without rows has
\* no such column, KeyError
RaiseKeyError ==
    /\ id_pc = "loop" /\ idx = Len(raw)
    /\ data_list = << >>
    /\ id_pc' = "raised"
    /\ UNCHANGED <<dedup_vars, norm_vars, agg_vars, source, raw, idx, seen_ids,
                   data_list, df_processed>>

IdNext ==
    \/ SkipRow
    \/ AppendRecord
    \/ ProcessReturn
    \/ RaiseKeyError

IdSpec == IdInit /\ [][IdNext]_vars

\* -------------------------------------------------------------- properties

\* remove_exact_duplicates has returned (to the caller or to
\* deduplicate_dataframe) and the caller has not moved on; its input was df
\* and its result is exact_out, which no later step changes.
ExactReturned == exact /\ pc \in {"exact_returned", "exact_again", "near_step"}

\* remove_near_duplicates has returned; its input was near_df and its
\* result is near_out.
NearReturned ==
    near /\ raised = "none" /\ pc \in {"near_returned", "stats_step", "dedup_returned"}

TextsOf(d) == [i \in 1..Len(d) |-> d[i].text]

\* The positions of d whose row (found by its label) is a row of out.
RetainedPositions(d, out) ==
    { p \in Positions(d) : \E o \in Positions(out) : Row(out, o) = Row(d, p) }

Min(S) == CHOOSE x \in S : \A y \in S : x <= y
Max(S) == CHOOSE x \in S : \A y \in S : x >= y

\* C1: remove_near_duplicates returns (output, removed_count) with
\* len(output) + removed_count = len(input), whatever the index labels of
\* the input are.
C1_NearSizeConservation ==
    NearReturned => Len(near_out.df) + near_out.n = Len(near_df)

\* C2: of every cluster found exactly one record is retained, the lowest
\* position for keep='first' and the highest for keep='last', and every
\* record that is in no cluster is retained.
C2_NearKeepsOnePerCluster ==
    NearReturned =>
        LET retained == RetainedPositions(near_df, near_out.df)
            clustered == UNION Range(duplicate_clusters)
        IN /\ \A c \in Range(duplicate_clusters) :
                retained \cap c = {IF keep = "first" THEN Min(c) ELSE Max(c)}
           /\ \A p \in Positions(near_df) : p \notin clustered => p \in retained

\* The lowercased, whitespace-collapsed form of a string: every character
\* lowercased, and a space kept only when it directly follows a non-space
\* and some non-space comes after it.
CollapsedLower(s) ==
    LET l == [i \in 1..Len(s) |-> LowerChar(s[i])]
        kept == { i \in 1..Len(s) :
                    \/ l[i] # " "
                    \/ /\ i > 1 /\ l[i - 1] # " "
                       /\ \E j \in (i + 1)..Len(s) : l[j] # " " }
        at == sorted(kept)
    IN [k \in 1..Len(at) |-> l[at[k]]]

ExampleTexts ==
    << Str(<<"a", "b", "c">>), Str(<<"a", "b", "c">>), Str(<<"A", "B", "C", " ", " ">>) >>

\* C3: two string texts get the same hash exactly when their lowercased,
\* whitespace-collapsed forms are equal; the output of
\* remove_exact_duplicates holds exactly one record of every hash group of
\* the input; ["abc", "abc", "ABC  "] collapses to one record with
\* removed_count 2.
C3_ExactOnePerHashGroup ==
    ExactReturned =>
        LET h == HashColumn(df)
            out == exact_out.df
        IN /\ \A p, q \in Positions(df) :
                Row(df, p).text.isStr /\ Row(df, q).text.isStr =>
                    ( h[p] = h[q] <=>
                      CollapsedLower(Row(df, p).text.chars)
                        = CollapsedLower(Row(df, q).text.chars) )
           /\ \A p \in Positions(df) :
                Cardinality({ o \in Positions(out) :
                                compute_text_hash(Row(out, o).text) = h[p] }) = 1
           /\ \A o \in Positions(out) : \E p \in Positions(df) : Row(df, p) = Row(out, o)
           /\ TextsOf(df) = ExampleTexts => Len(out) = 1 /\ exact_out.n = 2

C3_Witness ==
    /\ ExactReturned /\ TextsOf(df) = ExampleTexts
    /\ Len(exact_out.df) = 1 /\ exact_out.n = 2

\* C4: the record retained of each hash group is the one at the lowest
\* input position for keep='first' and at the highest for keep='last', and
\* the retained records are in the output in their input order.
C4_ExactKeepsFirstOrLast ==
    ExactReturned =>
        LET h == HashColumn(df)
            out == exact_out.df
            group(p) == { q \in Positions(df) : h[q] = h[p] }
            chosen == { p \in Positions(df) :
                          p = IF keep = "first" THEN Min(group(p)) ELSE Max(group(p)) }
            at == sorted(chosen)
        IN /\ Len(out) = Len(at)
           /\ \A k \in 1..Len(at) : out[k] = Row(df, at[k])

C4_Witness ==
    /\ ExactReturned /\ keep = "last" /\ Len(df) = 3
    /\ Len(exact_out.df) = 2 /\ exact_out.df[1] = df[2] /\ exact_out.df[2] = df[3]

\* C5: remove_exact_duplicates returns (output, removed_count) with
\* len(output) + removed_count = len(input).
C5_ExactSizeConservation ==
    ExactReturned => Len(exact_out.df) + exact_out.n = Len(df)

C5_Witness ==
    ExactReturned /\ Len(df) = 3 /\ exact_out.n = 1 /\ Len(exact_out.df) = 2

C7_ScanClustersDisjoint ==
    /\ \A a, b \in 1..Len(duplicate_clusters) :
            a # b => duplicate_clusters[a] \cap duplicate_clusters[b] = {}
    /\ \A a \in 1..Len(duplicate_clusters) : Cardinality(duplicate_clusters[a]) >= 2
    /\ processed = UNION Range(duplicate_clusters)

C7_Witness ==
    /\ pc = "scan" /\ global_idx < Len(texts)
    /\ Len(duplicate_clusters) = 2
    /\ processed = UNION Range(duplicate_clusters)

\* C8: after remove_near_duplicates with keep='first' on a DataFrame indexed
\* 0..n-1, no two retained records have a similarity at or above the
\* threshold.
C8_FirstLeavesNoSimilarPair ==
    (NearReturned /\ keep = "first" /\ IsRangeIndex(near_df) /\ DOMAIN sim # {}) =>
        \A p, q \in RetainedPositions(near_df, near_out.df) :
            p # q => sim[p][q] < near_threshold

C8_Witness ==
    /\ NearReturned /\ keep = "first" /\ IsRangeIndex(near_df) /\ DOMAIN sim # {}
    /\ Len(near_df) = 4 /\ Len(duplicate_clusters) >= 1
    /\ Cardinality(RetainedPositions(near_df, near_out.df)) = 2
    /\ Len(near_out.df) = 2

\* Control points of deduplicate_dataframe from the call of
\* remove_near_duplicates on.
NearPhase == {"find", "scan", "select", "stats_step", "dedup_returned", "raised"}

\* C9: in deduplicate_dataframe with exact and near enabled the exact pass
\* is complete when the near pass starts, and the near pass vectorizes,
\* clusters and counts only records that survived the exact pass.
C9_ExactBeforeNear ==
    (entry = "deduplicate_dataframe" /\ exact /\ near /\ pc \in NearPhase) =>
        /\ near_df = exact_out.df
        /\ texts = TextsOf(exact_out.df)
        /\ Len(texts) = Len(df) - stats.exact_duplicates_removed
        /\ \A i, j \in 1..Len(texts) :
                i # j => compute_text_hash(texts[i]) # compute_text_hash(texts[j])
        /\ \A c \in Range(duplicate_clusters) : c \subseteq Positions(exact_out.df)
        /\ indices_to_remove \subseteq Positions(exact_out.df)
        /\ NearReturned =>
            /\ stats.near_duplicates_removed = Cardinality(indices_to_remove)
            /\ \A o \in Positions(near_out.df) :
                    \E p \in Positions(exact_out.df) :
                        Row(near_out.df, o) = Row(exact_out.df, p)

C9_Witness ==
    /\ entry = "deduplicate_dataframe" /\ exact /\ near /\ pc = "scan"
    /\ Len(df) = 3 /\ stats.exact_duplicates_removed = 1 /\ Len(texts) = 2

\* C10: on an empty collection near-duplicate removal raises no error and
\* returns an empty collection with removed count 0.
C10_EmptyNearNoError ==
    (near /\ Len(df) = 0) =>
        /\ raised = "none"
        /\ near_out = [df |-> << >>, n |-> 0]

\* C11: a record whose text is not a string hashes like the empty (or
\* blank) string, so remove_exact_duplicates keeps only one of the two.
C11_NoneHashesAsEmpty ==
    ExactReturned =>
        \A p, q \in Positions(df) :
            ( /\ ~Row(df, p).text.isStr
              /\ Row(df, q).text.isStr
              /\ CollapsedLower(Row(df, q).text.chars) = << >> ) =>
                /\ compute_text_hash(Row(df, p).text) = compute_text_hash(Row(df, q).text)
                /\ ~( {p, q} \subseteq RetainedPositions(df, exact_out.df) )

\* remove_near_duplicates has been handed a DataFrame with a text that is
\* not a string.
NearHasNonStr ==
    /\ near /\ pc \notin {"call", "exact_step", "near_step"}
    /\ \E i \in 1..Len(near_df) : ~near_df[i].text.isStr

\* C12: a record whose text is not a string never aborts near-duplicate
\* removal: the call raises nothing and the other records are still
\* clustered.
C12_NonStrNeverAborts ==
    NearHasNonStr =>
        /\ raised = "none"
        /\ pc \notin {"find"} => DOMAIN sim # {}

\* threshold lies in (0, 1].
ValidThreshold(t) == t > 0 /\ t <= 100

\* C13: with a threshold outside (0, 1] the call raises a configuration
\* error before any record is vectorized or removed.
C13_InvalidThresholdRaises ==
    (near /\ ~ValidThreshold(near_threshold)) =>
        /\ pc \in {"call", "raised"}
        /\ pc = "raised" => raised = "ValueError"
        /\ texts = << >> /\ DOMAIN sim = {} /\ indices_to_remove = {}

\* C14: after remove_exact_duplicates the caller's collection has the
\* columns it had before the call.
C14_ExactLeavesInputColumns ==
    entry = "remove_exact_duplicates" => df_columns = {"text"}

\* normalize_text has returned ret for the argument arg under cfg.
TextReturned == fn = "normalize_text" /\ step = "returned"

IsBlank(s) == \A i \in 1..Len(s) : IsSpace(s[i])

\* C15: normalize_text returns "" for None, for any argument that is not a
\* str and for the empty string, under every configuration; and it returns
\* "" for an argument of whitespace only whenever normalize_ws is enabled.
C15_BlankGivesEmpty ==
    TextReturned =>
        /\ (~arg.isStr \/ arg.chars = << >>) => ret = << >>
        /\ (arg.isStr /\ IsBlank(arg.chars) /\ cfg.normalize_ws) => ret = << >>

\* Whitespace of several kinds came back empty with only the whitespace
\* step enabled to remove it.
C15_Witness ==
    /\ TextReturned
    /\ ret = << >>
    /\ arg = Str(<<" ", Tab, Newline, " ">>)
    /\ cfg.normalize_ws /\ ~cfg.normalize_hindi /\ ~cfg.normalize_unicode_chars
    /\ ran = <<"emoji", "ws">>

\* The steps in the order the claim gives them.
StepOrder ==
    <<"html", "url", "email", "mention", "hashtag", "unicode", "emoji", "punct",
      "hindi", "ws", "lower">>

\* Whether the configuration enables a step; the emoji step is called under
\* every configuration and strips when keep_emoji is false.
StepEnabled(s, c) ==
    CASE s = "html" -> c.remove_html_tags
      [] s = "url" -> c.remove_url
      [] s = "email" -> c.remove_email
      [] s = "mention" -> c.remove_mention
      [] s = "hashtag" -> c.normalize_hashtag
      [] s = "unicode" -> c.normalize_unicode_chars
      [] s = "emoji" -> TRUE
      [] s = "punct" -> c.normalize_punct
      [] s = "hindi" -> c.normalize_hindi
      [] s = "ws" -> c.normalize_ws
      [] s = "lower" -> c.lowercase

\* What a step makes of a text.
StepResult(s, c, t) ==
    CASE s = "html" -> remove_html(t)
      [] s = "url" -> remove_urls(t)
      [] s = "email" -> remove_emails(t)
      [] s = "mention" -> remove_mentions(t)
      [] s = "hashtag" -> remove_hashtags(t, TRUE)
      [] s = "unicode" -> remove_control_characters(normalize_unicode(t))
      [] s = "emoji" -> normalize_emoji(t, c.keep_emoji)
      [] s = "punct" -> normalize_punctuation(t)
      [] s = "hindi" -> normalize_romanized_hindi(t, HINDI_ROMANIZED_NORMALIZATIONS)
      [] s = "ws" -> normalize_whitespace(t)
      [] s = "lower" -> str_lower(t)

\* The enabled steps among the first n of StepOrder applied to t in order.
RECURSIVE InOrder(_, _, _)
InOrder(t, c, n) ==
    IF n = 0 THEN t
    ELSE IF StepEnabled(StepOrder[n], c)
         THEN StepResult(StepOrder[n], c, InOrder(t, c, n - 1))
         ELSE InOrder(t, c, n - 1)

EnabledSteps(c) == SelectSeq(StepOrder, LAMBDA s : StepEnabled(s, c))

IsPrefix(a, b) == Len(a) <= Len(b) /\ a = SubSeq(b, 1, Len(a))

\* C16: normalize_text applies its enabled steps in one fixed order: HTML,
\* URL, email, mention, hashtag, Unicode (NFKC then control characters),
\* emoji, punctuation, Romanized words, whitespace, lowercase.  At every
\* point the steps run so far are a prefix of the enabled steps in that
\* order, and at the return each enabled step has run exactly once and the
\* result is the enabled steps applied in that order.
C16_StepsInFixedOrder ==
    (fn = "normalize_text" /\ arg.isStr) =>
        /\ IsPrefix(ran, EnabledSteps(cfg))
        /\ step = "returned" =>
               /\ ran = EnabledSteps(cfg)
               /\ ret = InOrder(arg.chars, cfg, Len(StepOrder))

\* A text with a dictionary word and a run of marks went through all
\* eleven steps.
C16_Witness ==
    /\ TextReturned
    /\ arg = Str(Chars("Yar!!!"))
    /\ ran = StepOrder
    /\ ret = Chars("yaar!")

\* C17: with the default configuration normalize_text("Yar  kya   baat  hai!!!")
\* returns "yaar kya baat hai!", as the gold list of validate_normalizations
\* expects.
C17_MixedGoldExample ==
    (TextReturned /\ cfg = DefaultConfig
        /\ arg = Str(Chars("Yar  kya   baat  hai!!!")))
    => ret = Chars("yaar kya baat hai!")

\* The step function f has returned ret for the text arg.
StepReturned(f) == fn = f /\ step \in {"returned", "again"}

\* The characters that are not \w at the end of a word.
RECURSIVE TrailingPunctuation(_)
TrailingPunctuation(word) ==
    IF word = << >> \/ IsWord(word[Len(word)]) THEN << >>
    ELSE Append(TrailingPunctuation(SubSeq(word, 1, Len(word) - 1)), word[Len(word)])

\* The word the claim expects for a word of the text.
ExpectedWord(word) ==
    LET key == SelectSeq(str_lower(word), IsWord)
        D == HINDI_ROMANIZED_NORMALIZATIONS
    IN IF key \in DOMAIN D
       THEN (IF IsUpper(word[1]) THEN str_capitalize(D[key]) ELSE D[key])
                \o TrailingPunctuation(word)
       ELSE word

\* C18: normalize_romanized_hindi gives, for each word between whitespace:
\* on a dictionary hit the canonical spelling, capitalized exactly when the
\* first character of the word is uppercase, followed by the run of
\* punctuation at the end of the word (nothing when there is none); on a
\* miss, and for a word of punctuation only, the word unchanged.
C18_WordHitOrMiss ==
    StepReturned("normalize_romanized_hindi") =>
        LET words == str_split(arg.chars)
            out == str_split(ret)
        IN /\ Len(out) = Len(words)
           /\ \A i \in 1..Len(words) : out[i] = ExpectedWord(words[i])

\* C19: normalize_whitespace, normalize_punctuation and the lowercase step
\* are idempotent each on its own: f(f(t)) = f(t) for every text t.
C19_StepsIdempotent ==
    (fn \in {"normalize_whitespace", "normalize_punctuation", "lower"}
        /\ step = "again")
    => ret_again = ret

\* C20: every value of HINDI_ROMANIZED_NORMALIZATIONS is either not a key
\* or a key with itself as value, and normalize_romanized_hindi applied to
\* what it returned returns the same.
C20_DictionaryIdempotent ==
    fn = "normalize_romanized_hindi" =>
        LET D == HINDI_ROMANIZED_NORMALIZATIONS IN
        /\ \A k \in DOMAIN D : D[k] \notin DOMAIN D \/ D[D[k]] = D[k]
        /\ step = "again" => ret_again = ret

\* A word was rewritten to a value that is a key itself, with its
\* capital and its mark, and the second call left it as it was.
C20_Witness ==
    /\ fn = "normalize_romanized_hindi" /\ step = "again"
    /\ arg = Str(Chars("Yar."))
    /\ ret = Chars("Yaar.")
    /\ ret_again = ret
    /\ Chars("yaar") \in DOMAIN HINDI_ROMANIZED_NORMALIZATIONS

CurlyQuotes == {LeftSingleQuote, RightSingleQuote, LeftDoubleQuote, RightDoubleQuote}

\* C21: normalize_punctuation collapses every run of two or more of the
\* marks !?.;, to one mark and replaces curly quotes, en and em dashes and
\* the ellipsis character: what it returns holds no curly quote, no en or
\* em dash and no ellipsis character, and (the text having no ellipsis
\* character to expand) no two marks side by side.
C21_PunctuationToAscii ==
    StepReturned("normalize_punctuation") =>
        /\ \A i \in 1..Len(ret) : ret[i] \notin CurlyQuotes \cup {EnDash, EmDash, Ellipsis}
        /\ (\A i \in 1..Len(arg.chars) : arg.chars[i] # Ellipsis) =>
               \A i \in 1..(Len(ret) - 1) : ~(IsMark(ret[i]) /\ IsMark(ret[i + 1]))

\* The blocks the claim names, by code point: emoticons, pictographs,
\* transport symbols, flags, dingbats, enclosed characters.
IsEmojiBlockChar(c) ==
    LET n == Ord(c) IN
    \/ n >= 128512 /\ n <= 128591      \* 1F600-1F64F emoticons
    \/ n >= 127744 /\ n <= 128511      \* 1F300-1F5FF pictographs
    \/ n >= 128640 /\ n <= 128767      \* 1F680-1F6FF transport
    \/ n >= 127462 /\ n <= 127487      \* 1F1E0-1F1FF flags
    \/ n >= 9984 /\ n <= 10175         \* 2700-27BF dingbats
    \/ n >= 9312 /\ n <= 9471          \* 2460-24FF enclosed alphanumerics
    \/ n >= 127232 /\ n <= 127743      \* 1F100-1F2FF enclosed supplements

\* C22: with keep_emoji false the emoji step removes only characters of the
\* emoji blocks, so that a CJK ideograph or a Hangul syllable stays in the
\* text; with keep_emoji true it returns the text unchanged.
C22_EmojiOnlyRemoved ==
    StepReturned("normalize_emoji") =>
        IF cfg.keep_emoji THEN ret = arg.chars
        ELSE /\ SelectSeq(ret, LAMBDA c : ~IsEmojiBlockChar(c))
                    = SelectSeq(arg.chars, LAMBDA c : ~IsEmojiBlockChar(c))
             /\ \A i \in 1..Len(ret) : ret[i] # Grinning

\* find_near_duplicates has scanned all rows of a similarity matrix.
ScanDone == pc = "select" /\ DOMAIN sim # {}

\* C23: the clusters of find_near_duplicates do not depend on the batch
\* size: with batches of any size b >= 1, each compared with the whole
\* matrix, the scan gives the list of clusters it gives with one batch of
\* all rows, which is the list the program found with its own batch size.
C23_BatchSizeIndependent ==
    ScanDone =>
        LET n == Len(texts)
            whole == scan_from(sim, n, near_threshold, n, 0, << >>, {})
        IN /\ duplicate_clusters = whole
           /\ \A b \in 1..n : scan_from(sim, n, near_threshold, b, 0, << >>, {}) = whole

\* Two clusters were found, each with a member on either side of the
\* boundary between batches of two rows.
C23_Witness ==
    /\ ScanDone
    /\ Len(texts) = 4
    /\ duplicate_clusters = <<{0, 3}, {1, 2}>>

\* C24: the row scanned when find_near_duplicates forms a cluster is the
\* lowest index of the cluster, and every other member has a similarity
\* with it at or above the threshold; hence with keep='first' on a
\* DataFrame indexed 0..n-1 every removed record has a similarity at or
\* above the threshold with the retained representative of its cluster.
C24_ClusterAroundScannedRow ==
    /\ [][(pc = "scan" /\ duplicate_clusters' # duplicate_clusters) =>
            LET cluster == duplicate_clusters'[Len(duplicate_clusters')]
            IN /\ Len(duplicate_clusters') = Len(duplicate_clusters) + 1
               /\ global_idx \in cluster
               /\ \A x \in cluster :
                      x >= global_idx /\ sim[global_idx][x] >= near_threshold]_vars
    /\ []((NearReturned /\ keep = "first" /\ IsRangeIndex(near_df) /\ DOMAIN sim # {}) =>
            \A p \in Positions(near_df) \ RetainedPositions(near_df, near_out.df) :
                \E k \in 1..Len(duplicate_clusters) :
                    LET rep == Min(duplicate_clusters[k])
                    IN /\ p \in duplicate_clusters[k]
                       /\ rep \in RetainedPositions(near_df, near_out.df)
                       /\ sim[rep][p] >= near_threshold)

\* Two records were removed that are similar to the retained first member
\* of their cluster and not to each other.
C24_Witness ==
    /\ NearReturned /\ keep = "first" /\ IsRangeIndex(near_df) /\ DOMAIN sim # {}
    /\ Len(near_df) = 4
    /\ duplicate_clusters = <<{0, 2, 3}>>
    /\ RetainedPositions(near_df, near_out.df) = {0, 1}
    /\ sim[2][3] < near_threshold

\* C25 as claimed: after remove_near_duplicates with keep='last' on a
\* DataFrame indexed 0..n-1, no two retained records have a similarity at
\* or above the threshold.
C25_LastLeavesNoSimilarPair ==
    (NearReturned /\ keep = "last" /\ IsRangeIndex(near_df) /\ DOMAIN sim # {}) =>
        \A p, q \in RetainedPositions(near_df, near_out.df) :
            p # q => sim[p][q] < near_threshold

\* C25 as amended: after remove_near_duplicates with keep='last' on a
\* DataFrame indexed 0..n-1, two retained records have a similarity at or
\* above the threshold only if one of them is the retained last member of
\* a cluster; no two retained records outside every cluster have one.
C25_LastLeavesNoSimilarUnclustered ==
    (NearReturned /\ keep = "last" /\ IsRangeIndex(near_df) /\ DOMAIN sim # {}) =>
        \A p, q \in RetainedPositions(near_df, near_out.df) :
            (p # q /\ sim[p][q] >= near_threshold) =>
                \E k \in 1..Len(duplicate_clusters) :
                    Max(duplicate_clusters[k]) \in {p, q}

\* Rows 0 and 1 were clustered and row 1 retained; rows 2 and 3 stayed
\* outside every cluster, unlike each other, and row 2 is like row 1.
C25_Witness ==
    /\ NearReturned /\ keep = "last" /\ IsRangeIndex(near_df) /\ DOMAIN sim # {}
    /\ Len(near_df) = 4
    /\ duplicate_clusters = <<{0, 1}>>
    /\ RetainedPositions(near_df, near_out.df) = {1, 2, 3}
    /\ sim[1][2] >= near_threshold
    /\ sim[2][3] < near_threshold

\* C26: for every DataFrame that is not empty and every choice of exact and
\* near, the stats deduplicate_dataframe returns are consistent:
\* final_size = len(output), total_removed = original_size - final_size and
\* total_removed = exact_duplicates_removed + near_duplicates_removed.
C26_StatsConsistent ==
    (entry = "deduplicate_dataframe" /\ pc = "dedup_returned" /\ Len(df) > 0) =>
        /\ stats.final_size = Len(df_dedup)
        /\ stats.total_removed = stats.original_size - stats.final_size
        /\ stats.total_removed =
               stats.exact_duplicates_removed + stats.near_duplicates_removed

\* The spaces, tabs and newlines of a text, in order.
IsPlainSpace(c) == c \in {" ", Tab, Newline}
PlainSpaces(t) == SelectSeq(t, IsPlainSpace)

\* C27: with normalize_ws off, normalize_text leaves the whitespace of its
\* input as it is (repeated spaces, newlines, leading and trailing
\* whitespace), whatever the other toggles are, the word step included.
\* Stated for inputs whose whitespace is spaces, tabs and newlines.
C27_WhitespaceKeptWhenOff ==
    (/\ fn = "normalize_text" /\ step = "returned" /\ arg.isStr
     /\ ~cfg.normalize_ws
     /\ \A i \in 1..Len(arg.chars) : IsSpace(arg.chars[i]) => IsPlainSpace(arg.chars[i]))
    => PlainSpaces(ret) = PlainSpaces(arg.chars)

\* sub in s
Contains(s, sub) == \E i \in 1..Len(s) : StartsWithAt(s, i, sub)

\* The hashtags of a text: the places of their '#' signs.
HashtagPlaces(s) == {i \in 1..Len(s) : SignWordEnd(s, i, "#") > 0}

\* C28: the normalizer of get_normalizer('strict') removes hashtags
\* completely: when the input holds '#word', the output holds neither a '#'
\* nor the text of the tag.
C28_StrictRemovesHashtags ==
    (/\ fn = "normalize_text" /\ step = "returned" /\ arg.isStr
     /\ cfg = presets.strict
     /\ HashtagPlaces(arg.chars) # {})
    => /\ ~Contains(ret, <<"#">>)
       /\ \A i \in HashtagPlaces(arg.chars) :
              ~Contains(ret, str_lower(SubSeq(arg.chars, i + 1,
                                              SignWordEnd(arg.chars, i, "#"))))

\* The ids of the rows of a frame, in row order.
IdsOf(rows) == [k \in 1..Len(rows) |-> rows[k].id]

\* C29: aggregate_annotations returns exactly one row for each distinct item
\* id of its input, for each method; with method adjudicated an item without
\* an annotation of an adjudicator is aggregated by majority vote and the
\* other items are aggregated all the same.
C29_OneRowPerItem ==
    agg_pc = "returned" => IdsOf(agg_ret) = ItemIdsOf(anns)

\* C30: the ids process_reddit and process_youtube assign are pairwise
\* distinct within the collection they produce, whatever the input rows are,
\* rows that repeat an original id and rows whose original id has the form
\* '<id>_<row index>' included.
C30_AssignedIdsDistinct ==
    id_pc = "returned" => duplicated_sum(IdsOf(df_processed)) = 0

====
